---- MODULE Spec2Model ----
(***************************************************************************)
(* A model of EbiCrypto (src/main.go): the price refresh engine            *)
(* (Game.Update -> updateAllPrices -> updateSingleCoin workers joined by   *)
(* a WaitGroup, all commits under Game.mu), the termination-signal handler *)
(* that saves the state, the top bar's dropdown state machine and the      *)
(* chart drawing of Game.Draw.                                             *)
(*                                                                         *)
(* Time is counted in units of updateInterval (one second).  Prices are    *)
(* float64 in the program; the model keeps them as integers in thousandths *)
(* (the program prints three decimals), so "1" parses to 1000.             *)
(***************************************************************************)
EXTENDS Integers, Sequences, FiniteSets, TLC

VARIABLES
    coinData,           \* Game.coinData: index -> CoinInfo
    lastUpdateTime,     \* Game.lastUpdateTime
    mu,                 \* Game.mu: its holder
    wg,                 \* Game.wg: the WaitGroup counter
    now,                \* the wall clock read by time.Now()
    uiPc,               \* where the game-loop goroutine (Update / Draw) stands
    spawnIdx,           \* the index of the for loop of updateAllPrices
    wPc,                \* per coin: where its updateSingleCoin goroutine stands
    fetched,            \* per coin: what getPrice returned to that goroutine
    sigPc,              \* where the signal-handler goroutine of main stands
    sigIdx,             \* the coin the JSON encoder of saveData is writing
    saved,              \* the file written by saveData, as far as written
    loaded,             \* what loadData returned when it was last called
    dropdowns,          \* Game.dropdowns: IsOpen and Selected of each
    activeDropdown,     \* Game.activeDropdown (0 is nil)
    SelectedCoinIndex,  \* Game.SelectedCoinIndex
    chartType,          \* Game.chartType
    timeline,           \* Game.timeline
    frame,              \* what the last Draw put on the screen
    cycles,             \* history variable: refresh cycles started
    okPrices,           \* history variable: per coin, the price strings committed
    lastEvent,          \* history variable: the last press event and its path
    cycleLimit          \* the number of refresh cycles the run is followed for

vars == <<coinData, lastUpdateTime, mu, wg, now, uiPc, spawnIdx, wPc, fetched,
          sigPc, sigIdx, saved, dropdowns, activeDropdown, SelectedCoinIndex,
          chartType, timeline, frame, cycles, okPrices, lastEvent, cycleLimit,
          loaded>>

-----------------------------------------------------------------------------
(* Bounds of the model *)

\* how many of the target symbols are tracked
NumSymbols == 2
\* the clock stops advancing here
MaxClock == 2
\* refresh cycles in a run
MaxCycles == 3
\* refresh cycles in a run that a termination signal ends
MaxSaveCycles == 1
\* refresh cycles in a run with pointer presses
MaxPressCycles == 1
\* refresh cycles in a run started from a state file
MaxLoadedCycles == 1
\* the points of a long history in a state file
LongLen == 1001
\* refresh cycles in a run started with a long history
MaxLongCycles == 1
\* refresh cycles in a run with presses, frames and a termination signal
MaxRunCycles == 1
\* refresh cycles in a run checked to its end
MaxLiveCycles == 1
\* the commits of a symbol before a snapshot is saved and loaded again
MaxSnapshotCommits == 2
\* the points of a series in a state file
MaxLoaded == 2

-----------------------------------------------------------------------------
(* Program constants *)

updateInterval == 1
historyGapThreshold == updateInterval * 10
pricePrecision == 3

AllSymbols == <<"ETHUSDT", "BTCUSDT", "BNBUSDT", "SOLUSDT", "XRPUSDT">>
targetSymbols == SubSeq(AllSymbols, 1, NumSymbols)
Coins == 1..Len(targetSymbols)

Min(a, b) == IF a < b THEN a ELSE b
Max(a, b) == IF a > b THEN a ELSE b

-----------------------------------------------------------------------------
(* Strings and numbers *)

\* the price strings the exchange is taken to answer with; "x" is not a number
PriceStrings == {"1", "2.0", "x"}

\* math.Inf(1), which ParseFloat returns for "Inf": above every finite price
PosInf == 1000000000

\* strconv.ParseFloat(s, 64) on the strings of the model, in thousandths
ParseFloat(s) ==
    CASE s = "1"   -> [ok |-> TRUE, val |-> 1000]
      [] s = "2.0" -> [ok |-> TRUE, val |-> 2000]
      [] s = "Inf" -> [ok |-> TRUE, val |-> PosInf]
      [] OTHER     -> [ok |-> FALSE, val |-> 0]

\* fmt.Sprintf("%.3f", v) for v >= 0 in thousandths
FormatPrice(v) ==
    LET frac == v % 1000
        pad  == IF frac < 10 THEN "00" ELSE IF frac < 100 THEN "0" ELSE ""
    IN  ToString(v \div 1000) \o "." \o pad \o ToString(frac)

NoError == ""

-----------------------------------------------------------------------------
(* PriceFetcher: getPrice *)

\* what one HTTP exchange can come to
Responses ==
    {[transportErr |-> TRUE,  status |-> 0,   validJSON |-> FALSE, price |-> ""],
     [transportErr |-> FALSE, status |-> 500, validJSON |-> FALSE, price |-> ""],
     [transportErr |-> FALSE, status |-> 200, validJSON |-> FALSE, price |-> ""]}
    \cup {[transportErr |-> FALSE, status |-> 200, validJSON |-> TRUE, price |-> p] :
             p \in PriceStrings}

getPrice(symbol, resp) ==
    IF resp.transportErr
    THEN [price |-> "", err |-> "HTTP request failed"]
    ELSE IF resp.status # 200
    THEN [price |-> "", err |-> "API error"]
    ELSE IF ~resp.validJSON
    THEN [price |-> "", err |-> "JSON parse error"]
    ELSE IF ~ParseFloat(resp.price).ok
    THEN [price |-> "", err |-> "invalid price format"]
    ELSE [price |-> resp.price, err |-> NoError]

NoResult == [price |-> "", err |-> NoError]

-----------------------------------------------------------------------------
(* HistoryStore: the state of one coin and the commit of a fetch outcome *)

\* loadData when there is no state file: AppData{}
NoAppData == [coin_data |-> <<>>]

\* initCoinData: the coins of the loaded state when it has any, else the fresh
\* state of every target symbol
initCoinData(loadedData) ==
    IF Len(loadedData.coin_data) > 0
    THEN [i \in 1..Len(loadedData.coin_data) |->
            LET rec == loadedData.coin_data[i] IN
            [Symbol        |-> rec.symbol,
             LastPrice     |-> rec.last_price,
             PreviousPrice |-> rec.previous_price,
             PriceHistory  |-> rec.price_history,
             DisplayStr    |->
                 IF rec.last_price # ""
                 THEN IF ParseFloat(rec.last_price).ok
                      THEN rec.symbol \o ": "
                             \o FormatPrice(ParseFloat(rec.last_price).val)
                      ELSE rec.symbol \o ": Parse Error"
                 ELSE rec.symbol \o ": Loading...",
             FetchError    |-> NoError,
             IsLoading     |-> FALSE]]
    ELSE [i \in Coins |->
            [Symbol        |-> targetSymbols[i],
             LastPrice     |-> "",
             PreviousPrice |-> "",
             PriceHistory  |-> <<>>,
             DisplayStr    |-> targetSymbols[i] \o ": Loading...",
             FetchError    |-> NoError,
             IsLoading     |-> TRUE]]

\* a failure branch that records a point for the failed fetch
CommitFailureAppends(coin, err) ==
    [coin EXCEPT !.IsLoading    = FALSE,
                 !.FetchError   = err,
                 !.DisplayStr   = coin.Symbol \o ": Error",
                 !.PriceHistory = Append(@, [Price |-> 0, Timestamp |-> 0])]

\* a failure branch that shifts the last price into the previous price
CommitFailureShifts(coin, err) ==
    [coin EXCEPT !.IsLoading     = FALSE,
                 !.PreviousPrice = coin.LastPrice,
                 !.FetchError    = err,
                 !.DisplayStr    = coin.Symbol \o ": Error"]

\* the failure branch of updateSingleCoin: getPrice returned an error
CommitFailure(coin, err) ==
    [coin EXCEPT !.IsLoading  = FALSE,
                 !.FetchError = err,
                 !.DisplayStr = coin.Symbol \o ": Error"]

\* a success branch that fills previousPrice once and never shifts it again
CommitSuccessShiftsOnce(coin, newPriceStr, newPriceFloat, t) ==
    [coin EXCEPT !.IsLoading     = FALSE,
                 !.PreviousPrice = IF @ = "" THEN coin.LastPrice ELSE @,
                 !.LastPrice     = newPriceStr,
                 !.FetchError    = NoError,
                 !.DisplayStr    = coin.Symbol \o ": " \o FormatPrice(newPriceFloat),
                 !.PriceHistory  = Append(@, [Price |-> newPriceFloat, Timestamp |-> t])]

\* a success branch that puts the new point in front of the history
CommitSuccessPrepends(coin, newPriceStr, newPriceFloat, t) ==
    [coin EXCEPT !.IsLoading     = FALSE,
                 !.PreviousPrice = coin.LastPrice,
                 !.LastPrice     = newPriceStr,
                 !.FetchError    = NoError,
                 !.DisplayStr    = coin.Symbol \o ": " \o FormatPrice(newPriceFloat),
                 !.PriceHistory  = <<[Price |-> newPriceFloat, Timestamp |-> t]>> \o @]

\* the success branch of updateSingleCoin; t is time.Now() at the append
CommitSuccess(coin, newPriceStr, newPriceFloat, t) ==
    [coin EXCEPT !.IsLoading     = FALSE,
                 !.PreviousPrice = coin.LastPrice,
                 !.LastPrice     = newPriceStr,
                 !.FetchError    = NoError,
                 !.DisplayStr    = coin.Symbol \o ": " \o FormatPrice(newPriceFloat),
                 !.PriceHistory  = Append(@, [Price |-> newPriceFloat, Timestamp |-> t])]

\* a critical section whose failure branch also forgets the last price
CommitOutcomeDropsPrice(coin, res, t) ==
    IF res.err # NoError
    THEN [CommitFailure(coin, res.err) EXCEPT !.LastPrice = ""]
    ELSE CommitSuccess(coin, res.price, ParseFloat(res.price).val, t)

\* the critical section of updateSingleCoin
CommitOutcome(coin, res, t) ==
    IF res.err # NoError
    THEN CommitFailure(coin, res.err)
    ELSE LET pf == ParseFloat(res.price) IN
         IF ~pf.ok
         THEN [coin EXCEPT !.IsLoading  = FALSE,
                           !.FetchError = "parse error",
                           !.DisplayStr = coin.Symbol \o ": Parse Error"]
         ELSE CommitSuccess(coin, res.price, pf.val, t)

-----------------------------------------------------------------------------
(* The mutex Game.mu *)

Free == <<"free", 0>>
UIThread == <<"ui", 0>>
SigHandler == <<"signal", 0>>
Worker(i) == <<"worker", i>>

\* os.Exit(0) of the signal handler ends every goroutine
Running == sigPc # "exited"

-----------------------------------------------------------------------------
(* The clock *)

AdvanceClock ==
    /\ Running
    /\ now < MaxClock
    /\ now' = now + 1
    /\ UNCHANGED <<loaded, cycleLimit, coinData, lastUpdateTime, mu, wg, uiPc, spawnIdx, wPc, fetched,
                   sigPc, sigIdx, saved, dropdowns, activeDropdown,
                   SelectedCoinIndex, chartType, timeline, frame, cycles,
                   okPrices, lastEvent>>

-----------------------------------------------------------------------------
(* RefreshOrchestrator: Game.Update's tick and Game.updateAllPrices *)

\* Update, lines 527-530: is a refresh due?
UpdateStart ==
    /\ Running
    /\ uiPc = "idle"
    /\ IF now - lastUpdateTime >= updateInterval
       THEN /\ cycles < cycleLimit
            /\ lastUpdateTime' = now
            /\ cycles' = cycles + 1
            /\ spawnIdx' = 1
            /\ uiPc' = "spawn"
       ELSE /\ uiPc' = "input"
            /\ UNCHANGED <<loaded, cycleLimit, lastUpdateTime, cycles, spawnIdx>>
    /\ UNCHANGED <<loaded, cycleLimit, coinData, mu, wg, now, wPc, fetched, sigPc, sigIdx, saved,
                   dropdowns, activeDropdown, SelectedCoinIndex, chartType,
                   timeline, frame, okPrices, lastEvent>>

\* updateAllPrices, one turn of the loop: wg.Add(1); go updateSingleCoin(coin)
UpdateSpawn ==
    /\ Running
    /\ uiPc = "spawn"
    /\ wg' = wg + 1
    /\ wPc' = [wPc EXCEPT ![spawnIdx] = "fetch"]
    /\ spawnIdx' = spawnIdx + 1
    /\ uiPc' = IF spawnIdx = Len(coinData) THEN "wait" ELSE "spawn"
    /\ UNCHANGED <<loaded, cycleLimit, coinData, lastUpdateTime, mu, now, fetched, sigPc, sigIdx,
                   saved, dropdowns, activeDropdown, SelectedCoinIndex, chartType,
                   timeline, frame, cycles, okPrices, lastEvent>>

\* an updateAllPrices that returns without waiting for its workers
UpdateJoinNoWait ==
    /\ Running
    /\ uiPc = "wait"
    /\ uiPc' = "input"
    /\ UNCHANGED <<loaded, cycleLimit, coinData, lastUpdateTime, mu, wg, now, spawnIdx, wPc, fetched,
                   sigPc, sigIdx, saved, dropdowns, activeDropdown,
                   SelectedCoinIndex, chartType, timeline, frame, cycles,
                   okPrices, lastEvent>>

\* updateAllPrices: wg.Wait() returns
UpdateJoin ==
    /\ Running
    /\ uiPc = "wait"
    /\ wg = 0
    /\ uiPc' = "input"
    /\ UNCHANGED <<loaded, cycleLimit, coinData, lastUpdateTime, mu, wg, now, spawnIdx, wPc, fetched,
                   sigPc, sigIdx, saved, dropdowns, activeDropdown,
                   SelectedCoinIndex, chartType, timeline, frame, cycles,
                   okPrices, lastEvent>>

-----------------------------------------------------------------------------
(* The workers: Game.updateSingleCoin *)

\* line 148: getPrice returns, with a price or an error
WorkerFetch(i, resp) ==
    /\ Running
    /\ wPc[i] = "fetch"
    /\ fetched' = [fetched EXCEPT ![i] = getPrice(coinData[i].Symbol, resp)]
    /\ wPc' = [wPc EXCEPT ![i] = "lock"]
    /\ UNCHANGED <<loaded, cycleLimit, coinData, lastUpdateTime, mu, wg, now, uiPc, spawnIdx, sigPc,
                   sigIdx, saved, dropdowns, activeDropdown, SelectedCoinIndex,
                   chartType, timeline, frame, cycles, okPrices, lastEvent>>

\* line 150: g.mu.Lock()
WorkerLock(i) ==
    /\ Running
    /\ wPc[i] = "lock"
    /\ mu = Free
    /\ mu' = Worker(i)
    /\ wPc' = [wPc EXCEPT ![i] = "commit"]
    /\ UNCHANGED <<loaded, cycleLimit, coinData, lastUpdateTime, wg, now, uiPc, spawnIdx, fetched,
                   sigPc, sigIdx, saved, dropdowns, activeDropdown,
                   SelectedCoinIndex, chartType, timeline, frame, cycles,
                   okPrices, lastEvent>>

\* a commit that records a failure on every coin, as if the error were shared
WorkerCommitSharedError(i) ==
    /\ Running
    /\ wPc[i] = "commit"
    /\ coinData' = IF fetched[i].err # NoError
                   THEN [j \in Coins |-> CommitOutcome(coinData[j], fetched[i], now)]
                   ELSE [coinData EXCEPT ![i] = CommitOutcome(@, fetched[i], now)]
    /\ okPrices' = IF Len(coinData'[i].PriceHistory) > Len(coinData[i].PriceHistory)
                   THEN [okPrices EXCEPT ![i] = Append(@, fetched[i].price)]
                   ELSE okPrices
    /\ mu' = Free
    /\ wPc' = [wPc EXCEPT ![i] = "done"]
    /\ UNCHANGED <<loaded, cycleLimit, lastUpdateTime, wg, now, uiPc, spawnIdx, fetched, sigPc,
                   sigIdx, saved, dropdowns, activeDropdown, SelectedCoinIndex,
                   chartType, timeline, frame, cycles, lastEvent>>

\* a commit whose error return leaves Game.mu locked (no deferred Unlock)
WorkerCommitLeaksLock(i) ==
    /\ Running
    /\ wPc[i] = "commit"
    /\ coinData' = [coinData EXCEPT ![i] = CommitOutcome(@, fetched[i], now)]
    /\ okPrices' = IF Len(coinData'[i].PriceHistory) > Len(coinData[i].PriceHistory)
                   THEN [okPrices EXCEPT ![i] = Append(@, fetched[i].price)]
                   ELSE okPrices
    /\ mu' = IF fetched[i].err # NoError THEN mu ELSE Free
    /\ wPc' = [wPc EXCEPT ![i] = "done"]
    /\ UNCHANGED <<loaded, cycleLimit, lastUpdateTime, wg, now, uiPc, spawnIdx, fetched, sigPc,
                   sigIdx, saved, dropdowns, activeDropdown, SelectedCoinIndex,
                   chartType, timeline, frame, cycles, lastEvent>>

\* lines 153-177 and the deferred g.mu.Unlock()
WorkerCommit(i) ==
    /\ Running
    /\ wPc[i] = "commit"
    /\ coinData' = [coinData EXCEPT ![i] = CommitOutcome(@, fetched[i], now)]
    /\ okPrices' = IF Len(coinData'[i].PriceHistory) > Len(coinData[i].PriceHistory)
                   THEN [okPrices EXCEPT ![i] = Append(@, fetched[i].price)]
                   ELSE okPrices
    /\ mu' = Free
    /\ wPc' = [wPc EXCEPT ![i] = "done"]
    /\ UNCHANGED <<loaded, cycleLimit, lastUpdateTime, wg, now, uiPc, spawnIdx, fetched, sigPc,
                   sigIdx, saved, dropdowns, activeDropdown, SelectedCoinIndex,
                   chartType, timeline, frame, cycles, lastEvent>>

\* the deferred g.wg.Done(): the goroutine ends
WorkerDone(i) ==
    /\ Running
    /\ wPc[i] = "done"
    /\ wg' = wg - 1
    /\ wPc' = [wPc EXCEPT ![i] = "none"]
    /\ fetched' = [fetched EXCEPT ![i] = NoResult]
    /\ UNCHANGED <<loaded, cycleLimit, coinData, lastUpdateTime, mu, now, uiPc, spawnIdx, sigPc,
                   sigIdx, saved, dropdowns, activeDropdown, SelectedCoinIndex,
                   chartType, timeline, frame, cycles, okPrices, lastEvent>>

-----------------------------------------------------------------------------
(* The termination-signal goroutine of main and saveData *)

NoFile == [state |-> "none", coin_data |-> <<>>]

\* line 620: a SIGINT or SIGTERM is received
SignalReceived ==
    /\ sigPc = "wait"
    /\ sigPc' = "lock"
    /\ UNCHANGED <<loaded, cycleLimit, coinData, lastUpdateTime, mu, wg, now, uiPc, spawnIdx, wPc,
                   fetched, sigIdx, saved, dropdowns, activeDropdown,
                   SelectedCoinIndex, chartType, timeline, frame, cycles,
                   okPrices, lastEvent>>

\* line 622: g.mu.Lock()
SigLock ==
    /\ sigPc = "lock"
    /\ mu = Free
    /\ mu' = SigHandler
    /\ sigPc' = "copy"
    /\ UNCHANGED <<loaded, cycleLimit, coinData, lastUpdateTime, wg, now, uiPc, spawnIdx, wPc, fetched,
                   sigIdx, saved, dropdowns, activeDropdown, SelectedCoinIndex,
                   chartType, timeline, frame, cycles, okPrices, lastEvent>>

\* lines 623-624: dataToSave takes the slice of *CoinInfo (the pointers, not
\* the records they point to), then g.mu.Unlock()
SigCopy ==
    /\ sigPc = "copy"
    /\ mu' = Free
    /\ sigPc' = "create"
    /\ UNCHANGED <<loaded, cycleLimit, coinData, lastUpdateTime, wg, now, uiPc, spawnIdx, wPc, fetched,
                   sigIdx, saved, dropdowns, activeDropdown, SelectedCoinIndex,
                   chartType, timeline, frame, cycles, okPrices, lastEvent>>

\* saveData, lines 193-196: os.Create succeeds or fails
SigCreate(ok) ==
    /\ sigPc = "create"
    /\ IF ok
       THEN /\ saved' = [state |-> "writing", coin_data |-> <<>>]
            /\ sigIdx' = <<1, 1>>
            /\ sigPc' = "encode"
       ELSE /\ sigPc' = "exit"
            /\ UNCHANGED <<loaded, cycleLimit, saved, sigIdx>>
    /\ UNCHANGED <<loaded, cycleLimit, coinData, lastUpdateTime, mu, wg, now, uiPc, spawnIdx, wPc,
                   fetched, dropdowns, activeDropdown, SelectedCoinIndex,
                   chartType, timeline, frame, cycles, okPrices, lastEvent>>

\* the record of one coin as the encoder has it after reading field f
EncodeField(rec, coin, f) ==
    CASE f = 1 -> [rec EXCEPT !.symbol = coin.Symbol, !.last_price = coin.LastPrice]
      [] f = 2 -> [rec EXCEPT !.previous_price = coin.PreviousPrice]
      [] OTHER -> [rec EXCEPT !.price_history = coin.PriceHistory]

EmptyRecord ==
    [symbol |-> "", last_price |-> "", previous_price |-> "", price_history |-> <<>>]

\* saveData, line 201: encoder.Encode reads the fields of each coin through
\* its pointer, one after the other, in the order of the struct; Game.mu is
\* not held
SigEncode ==
    /\ sigPc = "encode"
    /\ LET i == sigIdx[1]
           f == sigIdx[2]
           rec == IF f = 1 THEN EmptyRecord ELSE saved.coin_data[i]
           new == EncodeField(rec, coinData[i], f)
           cd  == IF f = 1 THEN Append(saved.coin_data, new)
                  ELSE [saved.coin_data EXCEPT ![i] = new]
           last == i = Len(coinData) /\ f = 3
       IN  /\ saved' = [state |-> IF last THEN "written" ELSE "writing",
                        coin_data |-> cd]
           /\ sigIdx' = IF f < 3 THEN <<i, f + 1>> ELSE <<i + 1, 1>>
           /\ sigPc' = IF last THEN "exit" ELSE "encode"
    /\ UNCHANGED <<loaded, cycleLimit, coinData, lastUpdateTime, mu, wg, now, uiPc, spawnIdx, wPc,
                   fetched, dropdowns, activeDropdown, SelectedCoinIndex,
                   chartType, timeline, frame, cycles, okPrices, lastEvent>>

\* line 630: os.Exit(0)
SigExit ==
    /\ sigPc = "exit"
    /\ sigPc' = "exited"
    /\ UNCHANGED <<loaded, cycleLimit, coinData, lastUpdateTime, mu, wg, now, uiPc, spawnIdx, wPc,
                   fetched, sigIdx, saved, dropdowns, activeDropdown,
                   SelectedCoinIndex, chartType, timeline, frame, cycles,
                   okPrices, lastEvent>>

-----------------------------------------------------------------------------
(* The top bar: geometry of main and Game.initTopbar, in physical pixels *)

\* ebiten.Monitor().DeviceScaleFactor()
deviceScale == 1
baseFontSize == 12
scaledFontSize == baseFontSize * deviceScale
\* main, lines 591-592: scaledFontSize * 1.5 + 5.0 * deviceScale
physicalLineHeight == (scaledFontSize * 3) \div 2 + 5 * deviceScale
topbarHeight == 38 * deviceScale
margin == 12
btnW == 80
btnH == topbarHeight - 10

\* the font: the advance of a glyph and the height text.Measure gives one line
glyphAdvance == 7
faceLineHeight == 15

Dropdowns == 1..3

\* Dropdown.Bounds, the image.Rect of each pill
Bounds(d) ==
    CASE d = 1 -> [MinX |-> margin, MinY |-> 5,
                   MaxX |-> margin + btnW, MaxY |-> 5 + btnH]
      [] d = 2 -> [MinX |-> margin + btnW + margin, MinY |-> 5,
                   MaxX |-> margin + btnW * 2 + margin, MaxY |-> 5 + btnH]
      [] OTHER -> [MinX |-> margin + btnW * 2 + margin * 2, MinY |-> 5,
                   MaxX |-> margin + btnW * 3 + margin * 2, MaxY |-> 5 + btnH]

\* Dropdown.Options
Options(d) ==
    CASE d = 1 -> targetSymbols
      [] d = 2 -> <<"Line", "Candle">>
      [] OTHER -> <<"1h", "4h", "1d", "1w">>

\* initTopbar: every dropdown closed with Selected 0, line chart, 1h
initDropdowns == [d \in Dropdowns |-> [IsOpen |-> FALSE, Selected |-> 0]]

\* the selection state the press handling works on
UIState ==
    [dropdowns |-> dropdowns, activeDropdown |-> activeDropdown,
     SelectedCoinIndex |-> SelectedCoinIndex, chartType |-> chartType,
     timeline |-> timeline]

\* Dropdown.OnSelect of each dropdown (the closures of initTopbar)
OnSelect(ui, d, index) ==
    CASE d = 1 -> [ui EXCEPT !.SelectedCoinIndex = index]
      [] d = 2 -> [ui EXCEPT !.chartType = IF index = 0 THEN "line" ELSE "candle"]
      [] OTHER -> [ui EXCEPT !.timeline = Options(3)[index + 1]]

\* handleTopbarInput, lines 379-380: the press is on the pill of d
InHeader(d, mx, my) ==
    /\ mx >= Bounds(d).MinX /\ mx < Bounds(d).MaxX
    /\ my >= Bounds(d).MinY /\ my < Bounds(d).MaxY

\* handleTopbarInput, line 392: the row height of the option hit test
hitOptionHeight == physicalLineHeight

\* handleTopbarInput, lines 396-397: the press is in the option list of d
InOptions(d, mx, my) ==
    /\ mx >= Bounds(d).MinX /\ mx < Bounds(d).MinX + (Bounds(d).MaxX - Bounds(d).MinX)
    /\ my >= Bounds(d).MaxY
    /\ my < Bounds(d).MaxY + hitOptionHeight * Len(Options(d))

\* handleTopbarInput, line 398
OptionIndex(d, my) == (my - Bounds(d).MaxY) \div hitOptionHeight

\* handleTopbarInput, lines 381-387: the pill of d is pressed
ToggleHeader(ui, d) ==
    LET open == ~ui.dropdowns[d].IsOpen IN
    [ui EXCEPT !.dropdowns[d].IsOpen = open,
               !.activeDropdown = IF open THEN d
                                  ELSE IF @ = d THEN 0 ELSE @]

\* handleTopbarInput, lines 399-406: an option row of the open dropdown d
SelectOption(ui, d, optionIndex) ==
    IF optionIndex >= 0 /\ optionIndex < Len(Options(d))
    THEN LET sel == [ui EXCEPT !.dropdowns[d].Selected = optionIndex]
             eff == OnSelect(sel, d, optionIndex)
         IN  [eff EXCEPT !.dropdowns[d].IsOpen = FALSE, !.activeDropdown = 0]
    ELSE ui

\* handleTopbarInput, lines 413-416: a press elsewhere closes the active one
CloseActive(ui) ==
    IF ui.activeDropdown # 0
    THEN [ui EXCEPT !.dropdowns[ui.activeDropdown].IsOpen = FALSE,
                    !.activeDropdown = 0]
    ELSE ui

\* handleTopbarInput for a press at (mx, my): the loop over the dropdowns from
\* d on, then the close of the active dropdown.  Gives the new selection state
\* and the branch that handled the press.
RECURSIVE handleTopbarInput(_, _, _, _)
handleTopbarInput(ui, d, mx, my) ==
    IF d > Len(ui.dropdowns)
    THEN [ui |-> CloseActive(ui),
          path |-> IF ui.activeDropdown # 0 THEN "dismiss" ELSE "miss",
          dropdown |-> ui.activeDropdown, option |-> -1]
    ELSE IF InHeader(d, mx, my)
    THEN [ui |-> ToggleHeader(ui, d), path |-> "header", dropdown |-> d,
          option |-> -1]
    ELSE IF ui.dropdowns[d].IsOpen /\ InOptions(d, mx, my)
    THEN [ui |-> SelectOption(ui, d, OptionIndex(d, my)), path |-> "option",
          dropdown |-> d, option |-> OptionIndex(d, my)]
    ELSE handleTopbarInput(ui, d + 1, mx, my)

-----------------------------------------------------------------------------
(* Game.Update: the hit test of the symbol rows *)

\* text.Measure(coin.DisplayStr, g.fontFace, -1)
MeasureWidth(str) == Len(str) * glyphAdvance

\* Update, lines 539-555: the bounds of the row of coin i (from 0)
RowBounds(coins, i) ==
    LET physicalStartY == topbarHeight + 10 * deviceScale
        physicalDrawY  == physicalStartY + i * physicalLineHeight
        physicalDrawX  == 10 * deviceScale
    IN  [MinX |-> physicalDrawX, MinY |-> physicalDrawY,
         MaxX |-> physicalDrawX + MeasureWidth(coins[i + 1].DisplayStr),
         MaxY |-> physicalDrawY + faceLineHeight]

InRow(coins, i, mx, my) ==
    /\ mx >= RowBounds(coins, i).MinX /\ mx < RowBounds(coins, i).MaxX
    /\ my >= RowBounds(coins, i).MinY /\ my < RowBounds(coins, i).MaxY

\* Update, lines 544-563: the first row the press is in, or -1
RowHit(coins, mx, my) ==
    LET hits == {i \in 0..(Len(coins) - 1) : InRow(coins, i, mx, my)} IN
    IF hits = {} THEN -1 ELSE CHOOSE i \in hits : \A j \in hits : i <= j

\* Update, lines 535-565: coin selection, only if no dropdown is active
SelectRow(ui, coins, mx, my) ==
    IF ui.activeDropdown = 0 /\ RowHit(coins, mx, my) >= 0
    THEN [ui EXCEPT !.SelectedCoinIndex = RowHit(coins, mx, my)]
    ELSE ui

NoEvent == [path |-> "none", dropdown |-> 0, option |-> -1]

\* the pointer positions presses are tried at: left of, in and right of every
\* pill and every symbol row; above, in and below the pills, every option row
\* as hit and every symbol row
PointerXs == {5, 11, 12, 60, 95, 105, 150, 190, 230, 280}
PointerYs == {4, 5, 32, 33, 47, 48, 55, 56, 62, 63, 70, 71, 78, 79, 85, 86, 101,
              102, 124, 125}

\* Update, lines 532-565, for one frame's input: handleTopbarInput, then the
\* symbol rows.  pressed is inpututil.IsMouseButtonJustPressed, (mx, my) is
\* ebiten.CursorPosition.  OnSelect and the row test take Game.mu.
UpdateInput(pressed, mx, my) ==
    /\ Running
    /\ uiPc = "input"
    /\ \E top \in {IF pressed THEN handleTopbarInput(UIState, 1, mx, my)
                   ELSE [ui |-> UIState, path |-> "none", dropdown |-> 0,
                         option |-> -1]} :
       \E fin \in {IF pressed THEN SelectRow(top.ui, coinData, mx, my) ELSE top.ui} :
          /\ ((pressed /\ top.ui.activeDropdown = 0) \/ top.path = "option")
                => mu = Free
          /\ dropdowns' = fin.dropdowns
          /\ activeDropdown' = fin.activeDropdown
          /\ SelectedCoinIndex' = fin.SelectedCoinIndex
          /\ chartType' = fin.chartType
          /\ timeline' = fin.timeline
          /\ lastEvent' = [path |-> top.path, dropdown |-> top.dropdown,
                           option |-> top.option]
    /\ uiPc' = "idle"
    /\ UNCHANGED <<loaded, cycleLimit, coinData, lastUpdateTime, mu, wg, now, spawnIdx, wPc,
                   fetched, sigPc, sigIdx, saved, frame, cycles, okPrices>>

-----------------------------------------------------------------------------
(* Game.drawTopbar and Game.Draw: what a frame shows *)

\* drawTopbar, line 336: the row height the option list is drawn with,
\* int(physicalLineHeight * 0.85)
drawnOptionHeight == (physicalLineHeight * 85) \div 100

\* drawTopbar, lines 342-343: the rectangle option i (from 0) of d is drawn in
DrawnOptionRect(d, i) ==
    LET optionY == Bounds(d).MaxY + 2 + i * drawnOptionHeight IN
    [MinX |-> Bounds(d).MinX, MinY |-> optionY,
     MaxX |-> Bounds(d).MinX + (Bounds(d).MaxX - Bounds(d).MinX),
     MaxY |-> optionY + drawnOptionHeight]

\* drawTopbar, lines 356-367: the colour of the price of the selected coin
PriceColor(coin) ==
    IF coin.PreviousPrice # "" /\ coin.LastPrice # ""
    THEN LET prev == ParseFloat(coin.PreviousPrice)
             last == ParseFloat(coin.LastPrice)
         IN  IF prev.ok /\ last.ok
             THEN IF last.val > prev.val THEN "green"
                  ELSE IF last.val < prev.val THEN "red"
                  ELSE "white"
             ELSE "white"
    ELSE "white"

NoTopbar == [shown |-> FALSE, coin |-> -1, priceInfo |-> "", priceColor |-> "white",
             values |-> <<>>, open |-> {}]

\* drawTopbar: the value of each pill, the open option lists, and the price
\* of the selected coin with its colour
drawTopbar(ui, coins) ==
    LET sel == ui.SelectedCoinIndex
        inRange == sel >= 0 /\ sel < Len(coins)
    IN  [shown      |-> inRange,
         coin       |-> IF inRange THEN sel ELSE -1,
         priceInfo  |-> IF inRange
                        THEN coins[sel + 1].Symbol \o ": " \o coins[sel + 1].LastPrice
                        ELSE "",
         priceColor |-> IF inRange THEN PriceColor(coins[sel + 1]) ELSE "white",
         values     |-> [d \in Dropdowns |-> Options(d)[ui.dropdowns[d].Selected + 1]],
         open       |-> {d \in Dropdowns : ui.dropdowns[d].IsOpen}]

\* Draw, lines 463-474: the loop over history leaves in minPrice the least
\* and in maxPrice the greatest price of its points
PricesOf(history) == {history[k].Price : k \in 1..Len(history)}

MinPrice(history) ==
    CHOOSE p \in PricesOf(history) : \A q \in PricesOf(history) : p <= q

MaxPrice(history) ==
    CHOOSE p \in PricesOf(history) : \A q \in PricesOf(history) : p >= q

\* Draw, lines 465-480: the price range, in thousandths; a flat history gets
\* priceRange 1.0 and the bounds moved by 0.001
PriceRange(history) ==
    LET lo == MinPrice(history)
        hi == MaxPrice(history)
    IN  IF hi - lo = 0
        THEN [minPrice |-> lo - 1, maxPrice |-> hi + 1, priceRange |-> 1000]
        ELSE [minPrice |-> lo, maxPrice |-> hi, priceRange |-> hi - lo]

\* Draw, lines 497-506: the path of the line chart, one operation per point
LinePath(history) ==
    [i \in 1..Len(history) |->
        [op |-> IF i = 1 THEN "MoveTo" ELSE "LineTo", point |-> i]]

\* Draw, lines 499 and 517: (pp.Price - minPrice) / priceRange, the height of
\* a point above the bottom of the chart as a fraction of chartHeight, kept as
\* the two operands of the division
NormalisedY(pp, r) == [num |-> pp.Price - r.minPrice, den |-> r.priceRange]

\* Draw, line 498: float64(i) / float64(len(history)-1), the position of
\* point i (from 0) along chartWidth in line mode; 0/0 is NaN
LineX(i, n) == [num |-> i, den |-> n - 1]

\* Draw, lines 514-516: float64(i) * chartWidth / float64(len(history)), the
\* left edge of bar i (from 0) in candle mode
CandleX(i, n) == [num |-> i, den |-> n]

\* a quotient of float64 operands that is a number: not 0/0 (NaN), not x/0
IsNumber(q) == q.den # 0

NoChart == [coin |-> -1, n |-> 0, mode |-> "none", path |-> <<>>, bars |-> 0,
            minPrice |-> 0, maxPrice |-> 0, priceRange |-> 0,
            xs |-> <<>>, ys |-> <<>>]

\* Draw, lines 461-523: the chart of the selected coin
drawChart(ui, coins) ==
    LET sel == ui.SelectedCoinIndex IN
    IF sel >= 0 /\ sel < Len(coins) /\ Len(coins[sel + 1].PriceHistory) > 0
    THEN LET history == coins[sel + 1].PriceHistory
             r == PriceRange(history)
         IN  [coin |-> sel, n |-> Len(history), mode |-> ui.chartType,
              path |-> IF ui.chartType = "line" THEN LinePath(history) ELSE <<>>,
              bars |-> IF ui.chartType = "line" THEN 0 ELSE Len(history),
              minPrice |-> r.minPrice, maxPrice |-> r.maxPrice,
              priceRange |-> r.priceRange,
              xs |-> [i \in 1..Len(history) |->
                        IF ui.chartType = "line" THEN LineX(i - 1, Len(history))
                        ELSE CandleX(i - 1, Len(history))],
              ys |-> [i \in 1..Len(history) |-> NormalisedY(history[i], r)]]
    ELSE [NoChart EXCEPT !.coin = IF sel >= 0 /\ sel < Len(coins) THEN sel ELSE -1]

NoFrame == [topbar |-> NoTopbar, chart |-> NoChart]

\* Draw, lines 421-423: the frame starts, the screen is filled
DrawStart ==
    /\ Running
    /\ uiPc = "idle"
    /\ frame' = NoFrame
    /\ uiPc' = "topbar"
    /\ UNCHANGED <<loaded, cycleLimit, coinData, lastUpdateTime, mu, wg, now, spawnIdx, wPc, fetched,
                   sigPc, sigIdx, saved, dropdowns, activeDropdown,
                   SelectedCoinIndex, chartType, timeline, cycles, okPrices,
                   lastEvent>>

\* Draw, line 424: g.drawTopbar(screen), before Game.mu is taken
DrawTopbar ==
    /\ Running
    /\ uiPc = "topbar"
    /\ frame' = [frame EXCEPT !.topbar = drawTopbar(UIState, coinData)]
    /\ uiPc' = "drawlock"
    /\ UNCHANGED <<loaded, cycleLimit, coinData, lastUpdateTime, mu, wg, now, spawnIdx, wPc, fetched,
                   sigPc, sigIdx, saved, dropdowns, activeDropdown,
                   SelectedCoinIndex, chartType, timeline, cycles, okPrices,
                   lastEvent>>

\* Draw, line 437: g.mu.Lock()
DrawLock ==
    /\ Running
    /\ uiPc = "drawlock"
    /\ mu = Free
    /\ mu' = UIThread
    /\ uiPc' = "chart"
    /\ UNCHANGED <<loaded, cycleLimit, coinData, lastUpdateTime, wg, now, spawnIdx, wPc, fetched,
                   sigPc, sigIdx, saved, dropdowns, activeDropdown,
                   SelectedCoinIndex, chartType, timeline, frame, cycles,
                   okPrices, lastEvent>>

\* Draw, lines 440-523 and the deferred g.mu.Unlock()
DrawChart ==
    /\ Running
    /\ uiPc = "chart"
    /\ frame' = [frame EXCEPT !.chart = drawChart(UIState, coinData)]
    /\ mu' = Free
    /\ uiPc' = "idle"
    /\ UNCHANGED <<loaded, cycleLimit, coinData, lastUpdateTime, wg, now, spawnIdx, wPc, fetched,
                   sigPc, sigIdx, saved, dropdowns, activeDropdown,
                   SelectedCoinIndex, chartType, timeline, cycles, okPrices,
                   lastEvent>>

-----------------------------------------------------------------------------
(* The program from a fresh start: main with no state file *)

\* main, lines 601-614: the Game made around the coins initCoinData returned
StartGame(coins) ==
    /\ coinData = coins
    /\ now = 0
    /\ lastUpdateTime = 0 - updateInterval
    /\ mu = Free
    /\ wg = 0
    /\ uiPc = "idle"
    /\ spawnIdx = 0
    /\ wPc = [i \in Coins |-> "none"]
    /\ fetched = [i \in Coins |-> NoResult]
    /\ sigPc = "wait"
    /\ sigIdx = <<0, 0>>
    /\ saved = NoFile
    /\ dropdowns = initDropdowns
    /\ activeDropdown = 0
    /\ SelectedCoinIndex = 0
    /\ chartType = "line"
    /\ timeline = "1h"
    /\ frame = NoFrame
    /\ cycles = 0
    /\ okPrices = [i \in Coins |-> <<>>]
    /\ lastEvent = NoEvent

\* main, lines 594-599: loadData returned loadedData and no error
Start(loadedData) ==
    /\ loaded = [data |-> loadedData, err |-> NoError]
    /\ StartGame(initCoinData(loadedData))

\* there is no state file
FreshStart == Start(NoAppData)

Init ==
    /\ FreshStart
    /\ cycleLimit = MaxCycles

Refresh ==
    \/ UpdateStart
    \/ UpdateSpawn
    \/ UpdateJoin
    \/ \E i \in Coins, resp \in Responses : WorkerFetch(i, resp)
    \/ \E i \in Coins : WorkerLock(i)
    \/ \E i \in Coins : WorkerCommit(i)
    \/ \E i \in Coins : WorkerDone(i)

Terminate ==
    \/ SignalReceived
    \/ SigLock
    \/ SigCopy
    \/ \E ok \in BOOLEAN : SigCreate(ok)
    \/ SigEncode
    \/ SigExit

Render ==
    \/ DrawStart
    \/ DrawTopbar
    \/ DrawLock
    \/ DrawChart

\* a run in which no pointer press and no termination signal arrives
Next ==
    \/ AdvanceClock
    \/ Refresh
    \/ UpdateInput(FALSE, 0, 0)
    \/ Render

Spec == Init /\ [][Next]_vars

-----------------------------------------------------------------------------
(* Vocabulary of the claims about commits *)

\* the step of worker i that applies its fetch outcome to the store
CommitStep(i) == wPc[i] = "commit" /\ wPc'[i] = "done"

\* the outcome worker i holds is a price that parses
Succeeded(i) == fetched[i].err = NoError /\ ParseFloat(fetched[i].price).ok

HistoryLen(i) == Len(coinData[i].PriceHistory)

\* no refresh cycle is in flight: every worker of the last cycle has ended
Joined == uiPc \notin {"spawn", "wait"}

\* C1: for every symbol the length of the history never decreases: a
\* successful commit adds exactly one point, a failed commit adds none, and
\* no other step changes it.
HistoryGrowsOnlyBySuccess ==
    [][\A i \in Coins :
        LET before == Len(coinData[i].PriceHistory)
            after  == Len(coinData'[i].PriceHistory)
        IN  /\ after >= before
            /\ (CommitStep(i) /\ Succeeded(i)) => after = before + 1
            /\ (CommitStep(i) /\ ~Succeeded(i)) => after = before
            /\ ~CommitStep(i) => after = before]_vars

\* C1 witness: a symbol with two points in its history whose last commit failed
HistoryKeptAfterFailure ==
    \E i \in Coins :
        /\ HistoryLen(i) = 2
        /\ coinData[i].FetchError # NoError
        /\ cycles = 3 /\ Joined

\* C2: after N successful commits, with failed commits anywhere between them,
\* previousPrice is the price string of the (N-1)th successful commit, and
\* is empty when N <= 1.
PreviousPriceIsShiftByOne ==
    \A i \in Coins :
        LET n == Len(okPrices[i]) IN
        coinData[i].PreviousPrice = IF n <= 1 THEN "" ELSE okPrices[i][n - 1]

\* C2 witness: three successful commits of different prices, and a symbol whose
\* two successes have a failure between them
ThreeSuccessesAndAFailureBetween ==
    /\ \E i \in Coins :
          /\ okPrices[i] = <<"1", "2.0", "1">>
          /\ coinData[i].PreviousPrice = "2.0"
    /\ \E j \in Coins :
          /\ Len(okPrices[j]) = 2
          /\ coinData[j].PriceHistory[1].Timestamp = 0
          /\ coinData[j].PriceHistory[2].Timestamp = 2
          /\ cycles = 3 /\ Joined

\* C3: a failed commit sets lastError, sets displayText to the error
\* placeholder, clears loading, and leaves history, lastPrice and
\* previousPrice as they were.
FailedCommitFrame ==
    [][\A i \in Coins :
        (CommitStep(i) /\ ~Succeeded(i)) =>
            /\ coinData'[i].FetchError # NoError
            /\ coinData'[i].FetchError = fetched[i].err
            /\ coinData'[i].DisplayStr = coinData[i].Symbol \o ": Error"
            /\ coinData'[i].IsLoading = FALSE
            /\ coinData'[i].PriceHistory = coinData[i].PriceHistory
            /\ coinData'[i].LastPrice = coinData[i].LastPrice
            /\ coinData'[i].PreviousPrice = coinData[i].PreviousPrice]_vars

\* C3 witness: a failed commit has been applied to a symbol that holds a
\* last and a previous price
FailedCommitOnFilledSeries ==
    \E i \in Coins :
        /\ wPc[i] = "done"
        /\ fetched[i].err # NoError
        /\ coinData[i].FetchError = fetched[i].err
        /\ coinData[i].LastPrice = "2.0" /\ coinData[i].PreviousPrice = "1"
        /\ HistoryLen(i) = 2

\* C4: within a refresh cycle a failed fetch of one symbol changes nothing in
\* any other symbol's series, and when the cycle has joined every symbol
\* whose fetch succeeded has its new point: each symbol either carries its
\* error or a last point stamped within this cycle.
FailureIsContained ==
    /\ [][\A i \in Coins :
            (CommitStep(i) /\ ~Succeeded(i)) =>
                \A j \in Coins \ {i} : coinData'[j] = coinData[j]]_vars
    /\ [](Joined /\ cycles >= 1 =>
            \A i \in Coins :
                \/ coinData[i].FetchError # NoError
                \/ /\ HistoryLen(i) >= 1
                   /\ coinData[i].PriceHistory[HistoryLen(i)].Timestamp >= lastUpdateTime
                   /\ coinData[i].LastPrice = okPrices[i][Len(okPrices[i])])

\* C4 witness: the first cycle has joined, the first symbol got 1 and the
\* second timed out
FirstSucceededSecondTimedOut ==
    /\ cycles = 1 /\ uiPc = "input"
    /\ coinData[1].PriceHistory = <<[Price |-> 1000, Timestamp |-> 0]>>
    /\ coinData[1].FetchError = NoError
    /\ coinData[2].PriceHistory = <<>>
    /\ coinData[2].FetchError = "HTTP request failed"
    /\ coinData[2].DisplayStr = "BTCUSDT: Error"

-----------------------------------------------------------------------------
(* Claims about the render pass *)

\* C6: the render pass holds Game.mu for the whole draw: whenever the frame
\* being drawn is about to read a coin or the selection, for the top bar's
\* price and trend colour as for the chart, the game loop holds the mutex.
RenderReadsUnderLock ==
    uiPc \in {"topbar", "chart"} => mu = UIThread

\* C9: whenever the top bar has just been drawn for a symbol in error state
\* (its lastError is set), the trend colour shown is the neutral one,
\* whatever prices the symbol retains.
ErrorStateShowsNeutralTrend ==
    (/\ uiPc = "drawlock"
     /\ frame.topbar.shown
     /\ coinData[frame.topbar.coin + 1].FetchError # NoError)
        => frame.topbar.priceColor = "white"

-----------------------------------------------------------------------------
(* The program with a termination signal arriving at any moment *)

SaveInit ==
    /\ FreshStart
    /\ cycleLimit = MaxSaveCycles

SaveNext ==
    \/ Next
    \/ Terminate

SpecSave == SaveInit /\ [][SaveNext]_vars

\* the persisted record of coin i as the store held it after its k-th
\* successful commit
RecordAfter(i, k) ==
    [symbol         |-> coinData[i].Symbol,
     last_price     |-> IF k = 0 THEN "" ELSE okPrices[i][k],
     previous_price |-> IF k <= 1 THEN "" ELSE okPrices[i][k - 1],
     price_history  |-> SubSeq(coinData[i].PriceHistory, 1, k)]

\* C5: a commit is atomic for every reader: each symbol's record in the
\* snapshot the termination handler writes is the (lastPrice, previousPrice,
\* history) the store held between two commits, never a mixture.
SnapshotIsAtomic ==
    \A i \in 1..Len(saved.coin_data) :
        (sigPc \in {"exit", "exited"} \/ i < sigIdx[1]) =>
            \E k \in 0..Len(okPrices[i]) : saved.coin_data[i] = RecordAfter(i, k)

-----------------------------------------------------------------------------
(* The program with pointer presses: the dropdowns and the symbol rows *)

PressInit ==
    /\ FreshStart
    /\ cycleLimit = MaxPressCycles

\* what the exchange answers in these runs: a timeout or the price 1
PressResponses ==
    {resp \in Responses : resp.transportErr \/ resp.price = "1"}

\* the run through its first refresh cycle and the presses that follow it
\* within the update interval
PressNext ==
    \/ UpdateStart
    \/ UpdateSpawn
    \/ UpdateJoin
    \/ \E i \in Coins, resp \in PressResponses : WorkerFetch(i, resp)
    \/ \E i \in Coins : WorkerLock(i)
    \/ \E i \in Coins : WorkerCommit(i)
    \/ \E i \in Coins : WorkerDone(i)
    \/ UpdateInput(FALSE, 0, 0)
    \/ \E mx \in PointerXs, my \in PointerYs : UpdateInput(TRUE, mx, my)

SpecPress == PressInit /\ [][PressNext]_vars

\* the step of Update that handles the input of one frame
InputStep == uiPc = "input" /\ uiPc' = "idle"

OpenDropdowns == {d \in Dropdowns : dropdowns[d].IsOpen}

OptionPressSelectsOnly ==
    [][(/\ InputStep
        /\ Cardinality(OpenDropdowns) = 1
        /\ lastEvent'.path = "option") =>
          LET d == lastEvent'.dropdown
              k == lastEvent'.option
          IN  /\ OpenDropdowns = {d}
              /\ dropdowns'[d] = [IsOpen |-> FALSE, Selected |-> k]
              /\ activeDropdown' = 0
              /\ \A e \in Dropdowns \ {d} : dropdowns'[e] = dropdowns[e]
              /\ SelectedCoinIndex' = IF d = 1 THEN k ELSE SelectedCoinIndex
              /\ chartType' = IF d = 2
                              THEN (IF k = 0 THEN "line" ELSE "candle")
                              ELSE chartType
              /\ timeline' = IF d = 3 THEN Options(3)[k + 1] ELSE timeline]_vars

-----------------------------------------------------------------------------
(* The program started from a state file written by an earlier run *)

\* when the earlier run committed: before this run's start at 0, in units of
\* updateInterval
LoadedTimes == {0 - 12, 0 - 1}

\* the successful commits of an earlier run: price strings with their times
LoadedCommits ==
    {c \in UNION {[1..n -> (PriceStrings \ {"x"}) \X LoadedTimes] : n \in 0..MaxLoaded} :
        \A k \in 1..(Len(c) - 1) : c[k][2] <= c[k + 1][2]}

\* the record saveData wrote for a symbol after these commits
SavedRecord(symbol, c) ==
    [symbol         |-> symbol,
     last_price     |-> IF Len(c) = 0 THEN "" ELSE c[Len(c)][1],
     previous_price |-> IF Len(c) <= 1 THEN "" ELSE c[Len(c) - 1][1],
     price_history  |-> [k \in 1..Len(c) |->
                            [Price |-> ParseFloat(c[k][1]).val, Timestamp |-> c[k][2]]]]

\* the state files tried: the first symbol with any of the series, the
\* others with none
StateFiles ==
    {[coin_data |-> [i \in Coins |->
                        SavedRecord(targetSymbols[i], IF i = 1 THEN c ELSE <<>>)]] :
        c \in LoadedCommits}

LoadedInit ==
    /\ \E file \in StateFiles : Start(file)
    /\ cycleLimit = MaxLoadedCycles

SpecLoaded == LoadedInit /\ [][Next]_vars

\* the history the chart of the last frame was drawn from
DrawnHistory == SubSeq(coinData[frame.chart.coin + 1].PriceHistory, 1, frame.chart.n)

\* C10: in line mode, wherever two consecutive points of the drawn history
\* are further apart than the gap threshold, the line is broken: the second
\* point starts a new segment, it is not joined to the first by a line.
LineBreaksAtGaps ==
    frame.chart.mode = "line" =>
        \A k \in 2..frame.chart.n :
            DrawnHistory[k].Timestamp - DrawnHistory[k - 1].Timestamp
                    > historyGapThreshold
                => frame.chart.path[k].op = "MoveTo"

-----------------------------------------------------------------------------
(* The projection of a history onto the chart *)

\* the drawn history is not empty and all its prices are equal
FlatWindow ==
    /\ frame.chart.n > 0
    /\ \A k \in 1..frame.chart.n : DrawnHistory[k].Price = DrawnHistory[1].Price

\* C11: for a non-empty window whose prices all equal p, the projection does
\* not divide by zero, its price range is the band [p - 0.001, p + 0.001]
\* (prices in thousandths), and every point lies at half the chart's height.
FlatWindowIsCentred ==
    FlatWindow =>
        /\ frame.chart.priceRange # 0
        /\ frame.chart.minPrice = DrawnHistory[1].Price - 1
        /\ frame.chart.maxPrice = DrawnHistory[1].Price + 1
        /\ frame.chart.priceRange = frame.chart.maxPrice - frame.chart.minPrice
        /\ \A k \in 1..frame.chart.n :
               2 * frame.chart.ys[k].num = frame.chart.ys[k].den

-----------------------------------------------------------------------------
(* The history of a symbol within a run *)

\* C12: for all consecutive points of a symbol's history produced within a
\* run, the later point's timestamp is not before the earlier one's, under
\* every interleaving of the workers.
TimestampsNonDecreasing ==
    \A i \in Coins :
        \A k \in 1..(HistoryLen(i) - 1) :
            coinData[i].PriceHistory[k + 1].Timestamp
                >= coinData[i].PriceHistory[k].Timestamp

\* both symbols hold points of two cycles, committed at different clock
\* readings, and the second symbol committed its first point after the clock
\* had moved on from the first symbol's
PointsOfTwoCyclesInterleaved ==
    /\ \A i \in Coins :
           /\ HistoryLen(i) >= 2
           /\ coinData[i].PriceHistory[1].Timestamp
                  < coinData[i].PriceHistory[2].Timestamp
    /\ coinData[1].PriceHistory[1].Timestamp < coinData[2].PriceHistory[1].Timestamp

\* C20: from a fresh start, for every symbol: the history is empty exactly
\* when lastPrice is empty; the last point's price is the numeric value of
\* lastPrice; and with two points or more the second-to-last point's price is
\* the numeric value of previousPrice.
HistoryMatchesPrices ==
    \A i \in Coins :
        LET coin == coinData[i]
            n == HistoryLen(i)
        IN  /\ (n = 0) <=> (coin.LastPrice = "")
            /\ n >= 1 => /\ ParseFloat(coin.LastPrice).ok
                         /\ coin.PriceHistory[n].Price = ParseFloat(coin.LastPrice).val
            /\ n >= 2 => /\ ParseFloat(coin.PreviousPrice).ok
                         /\ coin.PriceHistory[n - 1].Price
                                = ParseFloat(coin.PreviousPrice).val

\* a symbol with two points of different prices whose latest fetch failed
TwoPricesThenFailure ==
    \E i \in Coins :
        /\ HistoryLen(i) >= 2
        /\ coinData[i].PriceHistory[HistoryLen(i)].Price
               # coinData[i].PriceHistory[HistoryLen(i) - 1].Price
        /\ coinData[i].FetchError # NoError
        /\ Joined

-----------------------------------------------------------------------------
(* saveData and loadData: the state file as JSON text *)

\* the strings a CoinInfo of the model holds
Strings == {""} \cup {targetSymbols[i] : i \in Coins} \cup PriceStrings \cup {"Inf"}

\* the finite prices and the timestamps a PricePoint of the model holds
FiniteFloats == {ParseFloat(p).val : p \in {q \in PriceStrings : ParseFloat(q).ok}}
Times == (0 - 12)..MaxSnapshotCommits

\* encoding/json on a string: the literal in quotes (no string of the model
\* has a character that is escaped)
MarshalString(s) == "\"" \o s \o "\""
UnmarshalString(lit) == CHOOSE s \in Strings : MarshalString(s) = lit

\* encoding/json on a float64: the shortest decimal that parses back to it;
\* an infinity is an UnsupportedValueError
MarshalFloat(v) ==
    IF v = PosInf THEN [ok |-> FALSE, text |-> ""]
    ELSE [ok |-> TRUE,
          text |-> IF v % 1000 = 0 THEN ToString(v \div 1000) ELSE FormatPrice(v)]
UnmarshalFloat(text) == CHOOSE v \in FiniteFloats : MarshalFloat(v).text = text

\* time.Time.MarshalJSON: the instant as an RFC 3339 string; the monotonic
\* clock reading is not written
MarshalTime(t) == "\"T" \o ToString(t) \o "\""
UnmarshalTime(text) == CHOOSE t \in Times : MarshalTime(t) = text

\* a PricePoint as a JSON object
MarshalPoint(pp) ==
    [ok   |-> MarshalFloat(pp.Price).ok,
     text |-> [price |-> MarshalFloat(pp.Price).text,
               timestamp |-> MarshalTime(pp.Timestamp)]]
UnmarshalPoint(text) ==
    [Price |-> UnmarshalFloat(text.price), Timestamp |-> UnmarshalTime(text.timestamp)]

\* a CoinInfo whose price_history is not written
MarshalCoinDropsHistory(coin) ==
    [ok   |-> TRUE,
     text |-> [symbol         |-> MarshalString(coin.Symbol),
               last_price     |-> MarshalString(coin.LastPrice),
               previous_price |-> MarshalString(coin.PreviousPrice),
               price_history  |-> <<>>]]

\* a CoinInfo as a JSON object: the four fields with a json name; DisplayStr,
\* FetchError and IsLoading are tagged "-"
MarshalCoin(coin) ==
    [ok   |-> \A k \in 1..Len(coin.PriceHistory) : MarshalPoint(coin.PriceHistory[k]).ok,
     text |-> [symbol         |-> MarshalString(coin.Symbol),
               last_price     |-> MarshalString(coin.LastPrice),
               previous_price |-> MarshalString(coin.PreviousPrice),
               price_history  |-> [k \in 1..Len(coin.PriceHistory) |->
                                      MarshalPoint(coin.PriceHistory[k]).text]]]

\* a JSON object decoded into a new CoinInfo: the fields without a json name
\* keep their zero values
UnmarshalCoin(text) ==
    [Symbol        |-> UnmarshalString(text.symbol),
     LastPrice     |-> UnmarshalString(text.last_price),
     PreviousPrice |-> UnmarshalString(text.previous_price),
     PriceHistory  |-> [k \in 1..Len(text.price_history) |->
                           UnmarshalPoint(text.price_history[k])],
     DisplayStr    |-> "",
     FetchError    |-> NoError,
     IsLoading     |-> FALSE]

\* saveData(AppData{CoinData: coins}, stateFilename) on the file as it was:
\* os.Create fails and leaves the file, or truncates it; Encode then writes
\* the whole text, or nothing when a value cannot be encoded
saveData(coins, file, created) ==
    IF ~created
    THEN [file |-> file, err |-> "failed to create state file"]
    ELSE IF \E i \in 1..Len(coins) : ~MarshalCoin(coins[i]).ok
    THEN [file |-> [state |-> "empty", coin_data |-> <<>>],
          err  |-> "failed to encode state data"]
    ELSE [file |-> [state |-> "written",
                    coin_data |-> [i \in 1..Len(coins) |-> MarshalCoin(coins[i]).text]],
          err  |-> NoError]

\* loadData(stateFilename): no file is no error; an empty file does not decode
loadData(file) ==
    CASE file.state = "none"  -> [data |-> NoAppData, err |-> NoError]
      [] file.state = "empty" -> [data |-> NoAppData, err |-> "failed to decode state data"]
      [] OTHER -> [data |-> [coin_data |-> [i \in 1..Len(file.coin_data) |->
                                              UnmarshalCoin(file.coin_data[i])]],
                   err  |-> NoError]

\* what getPrice returned to a symbol's worker, cycle after cycle
SnapshotResults ==
    {[price |-> p, err |-> NoError] : p \in {"1", "2.0", "Inf"}}
        \cup {[price |-> "", err |-> "HTTP request failed"]}

\* the coin after the commits of these results, one cycle per tick from 0
RECURSIVE CoinAfter(_, _)
CoinAfter(coin, results) ==
    IF Len(results) = 0 THEN coin
    ELSE CommitOutcome(CoinAfter(coin, SubSeq(results, 1, Len(results) - 1)),
                       results[Len(results)], Len(results) - 1)

\* the stores a run from the fresh state can hold when it is told to stop
Snapshots ==
    LET runs == UNION {[1..n -> SnapshotResults] : n \in 0..MaxSnapshotCommits}
    IN  {[i \in Coins |-> CoinAfter(initCoinData(NoAppData)[i], r[i])] :
            r \in [Coins -> runs]}

\* the signal handler has taken its copy of a store no worker is writing
RoundTripInit ==
    /\ loaded = [data |-> NoAppData, err |-> NoError]
    /\ \E coins \in Snapshots : StartGame(coins)
    /\ cycleLimit = 0

\* main, line 626: saveData on the handler's copy, then os.Exit
SaveSnapshot(created) ==
    /\ sigPc = "wait"
    /\ saved' = saveData(coinData, saved, created).file
    /\ sigPc' = IF saveData(coinData, saved, created).err = NoError
                THEN "saved" ELSE "failed"
    /\ UNCHANGED <<loaded, cycleLimit, coinData, lastUpdateTime, mu, wg, now, uiPc,
                   spawnIdx, wPc, fetched, sigIdx, dropdowns, activeDropdown,
                   SelectedCoinIndex, chartType, timeline, frame, cycles,
                   okPrices, lastEvent>>

\* main, line 594, of the next run: loadData on the file the last run left
LoadSnapshot ==
    /\ sigPc \in {"saved", "failed"}
    /\ loaded' = loadData(saved)
    /\ sigPc' = IF sigPc = "saved" THEN "reloaded" ELSE "restarted"
    /\ UNCHANGED <<cycleLimit, coinData, lastUpdateTime, mu, wg, now, uiPc,
                   spawnIdx, wPc, fetched, sigIdx, saved, dropdowns,
                   activeDropdown, SelectedCoinIndex, chartType, timeline, frame,
                   cycles, okPrices, lastEvent>>

RoundTripNext ==
    \/ \E created \in BOOLEAN : SaveSnapshot(created)
    \/ LoadSnapshot

SpecRoundTrip == RoundTripInit /\ [][RoundTripNext]_vars

\* the persisted fields of a CoinInfo
Persisted(coin) ==
    [symbol |-> coin.Symbol, last_price |-> coin.LastPrice,
     previous_price |-> coin.PreviousPrice, price_history |-> coin.PriceHistory]

-----------------------------------------------------------------------------
(* The refresh cycles of a run *)

\* Update finds a refresh due and enters updateAllPrices
CycleStarts == uiPc = "idle" /\ uiPc' = "spawn"

\* updateAllPrices returns to Update
CycleEnds == uiPc = "wait" /\ uiPc' # "wait"

\* a refresh cycle is outstanding
InFlight == uiPc \in {"spawn", "wait"}

\* C14: at most one refresh cycle is outstanding: workers exist only inside
\* a cycle; a worker ends only after its commit; a cycle ends only when every
\* worker it launched has ended; a cycle starts only when none is outstanding,
\* at least one interval after the start of the one before it, so that the
\* ticks missed by an overrunning cycle start no cycles of their own.
OneCycleOutstanding ==
    /\ [](\A i \in Coins : wPc[i] # "none" => InFlight)
    /\ [][\A i \in Coins :
            /\ (wPc[i] # "none" /\ wPc'[i] = "none") => wPc[i] = "done"
            /\ (wPc[i] # "done" /\ wPc'[i] = "done") => CommitStep(i)]_vars
    /\ [][CycleEnds => /\ wg = 0
                       /\ \A i \in Coins : wPc[i] = "none"]_vars
    /\ [][CycleStarts => /\ wg = 0
                         /\ \A i \in Coins : wPc[i] = "none"
                         /\ now - lastUpdateTime >= updateInterval
                         /\ lastUpdateTime' = now]_vars
    /\ [][~CycleStarts => lastUpdateTime' = lastUpdateTime]_vars

\* the first cycle started at 0 and overran two intervals (one symbol
\* committed at 0, the other at 2); one cycle followed it, started at 2, and
\* has ended with no other started
OverrunFollowedByOneCycle ==
    /\ cycles = 2
    /\ uiPc = "idle"
    /\ now = 2
    /\ lastUpdateTime = 2
    /\ \A i \in Coins : HistoryLen(i) = 2
    /\ coinData[1].PriceHistory[1].Timestamp = 0
    /\ coinData[2].PriceHistory[1].Timestamp = 2

-----------------------------------------------------------------------------
(* The game loop that keeps running: ebiten.RunGame calls Update and Draw in
   turn for ever, and every goroutine that can run does run *)

LiveInit ==
    /\ FreshStart
    /\ cycleLimit = MaxLiveCycles

SpecLive ==
    /\ LiveInit
    /\ [][Next]_vars
    /\ WF_vars(AdvanceClock)
    /\ SF_vars(Refresh)
    /\ SF_vars(UpdateInput(FALSE, 0, 0))
    /\ SF_vars(Render)

\* a render pass is running
Rendering == uiPc \in {"topbar", "drawlock", "chart"}

\* worker i of the cycle in flight has committed, worker j has not
CommittedBefore(i, j) ==
    /\ i < spawnIdx
    /\ wPc[i] \in {"done", "none"}
    /\ wPc[j] \in {"fetch", "lock", "commit"}

\* a render pass runs while a cycle is in flight, with one symbol already
\* committed in this cycle and another still at the previous tick
RenderSeesPartialCycle ==
    /\ Rendering
    /\ \E i, j \in Coins : CommittedBefore(i, j)

\* C15: a refresh cycle is not atomic for the render pass: a render pass
\* comes to run while a cycle is in flight and sees some symbols at the new
\* tick and others at the previous one; a slow symbol does not delay the
\* visibility of the symbols already committed.
RenderObservesPartialCycle == <>RenderSeesPartialCycle

\* no render pass runs while a worker of a cycle is alive
RenderOnlyBetweenCycles ==
    Rendering => /\ ~InFlight
                 /\ \A i \in Coins : wPc[i] = "none"

-----------------------------------------------------------------------------
(* The program started with a long history: an earlier run of LongLen ticks *)

\* one commit of the same price at every tick of the earlier run
LongCommits == [k \in 1..LongLen |-> <<"1", k - LongLen - 1>>]

LongFile ==
    [coin_data |-> [i \in Coins |->
                       SavedRecord(targetSymbols[i],
                                   IF i = 1 THEN LongCommits ELSE <<>>)]]

LongInit ==
    /\ Start(LongFile)
    /\ cycleLimit = MaxLongCycles

\* the fetches of the run: a timeout or a price
LongNext ==
    \/ UpdateStart
    \/ UpdateSpawn
    \/ UpdateJoin
    \/ \E i \in Coins, resp \in PressResponses : WorkerFetch(i, resp)
    \/ \E i \in Coins : WorkerLock(i)
    \/ \E i \in Coins : WorkerCommit(i)
    \/ \E i \in Coins : WorkerDone(i)
    \/ UpdateInput(FALSE, 0, 0)
    \/ Render

SpecLong == LongInit /\ [][LongNext]_vars

\* the caps the window may have
WindowCaps == 100..1000

\* Draw leaves the chart of a frame
ChartDrawn == uiPc = "chart" /\ uiPc' = "idle"

\* C16: the projection works on a window of the history: with a history
\* longer than the cap (a value in [100, 1000]) it uses the most recent cap
\* points, else the whole history; it never projects more than 1000 points.
ProjectionIsWindowed ==
    [][ChartDrawn /\ frame'.chart.coin >= 0 =>
          \E cap \in WindowCaps :
              frame'.chart.n
                  = Min(Len(coinData[frame'.chart.coin + 1].PriceHistory), cap)]_vars

-----------------------------------------------------------------------------
(* The projection of a history of one point *)

\* the marks a frame's chart shows apart from the line: the filled
\* rectangles of candle mode (line 519); line mode strokes its path and
\* draws nothing else, and a path of one MoveTo has nothing to stroke
Markers(chart) == chart.bars

\* C17: for a history of exactly one point the projection draws a single
\* marker at the vertical midpoint of the epsilon band and no line, in line
\* mode as in candle mode, and the horizontal mapping (rank over window
\* length minus one) does not divide by zero.
SinglePointIsMarker ==
    frame.chart.n = 1 =>
        /\ Markers(frame.chart) = 1
        /\ \A k \in 1..Len(frame.chart.path) : frame.chart.path[k].op # "LineTo"
        /\ IsNumber(frame.chart.xs[1])
        /\ 2 * frame.chart.ys[1].num = frame.chart.ys[1].den

-----------------------------------------------------------------------------
(* The dropdowns after pointer presses *)

\* C18: after any sequence of pointer presses at most one dropdown is open,
\* and activeDropdown is a dropdown exactly when that dropdown is open: it is
\* empty if and only if no dropdown is open.
OneDropdownOpenAndActive ==
    /\ Cardinality(OpenDropdowns) <= 1
    /\ \A d \in Dropdowns : (activeDropdown = d) <=> dropdowns[d].IsOpen
    /\ (activeDropdown = 0) <=> (OpenDropdowns = {})

\* C19: after any sequence of pointer presses (option selections and row
\* clicks) the symbol dropdown's Selected index is the selected symbol index:
\* the symbol named in the top bar is the symbol whose chart is drawn.
SymbolDropdownTracksSelection ==
    dropdowns[1].Selected = SelectedCoinIndex

-----------------------------------------------------------------------------
(* The whole program: the game loop with presses and frames, the workers and
   the termination handler, every goroutine that can run being run *)

RunInit ==
    /\ FreshStart
    /\ cycleLimit = MaxRunCycles

\* the presses of the run: the Crypto header, its second option (over the
\* first symbol row), the second symbol row, and a point that hits nothing
RunPresses == {<<12, 5>>, <<12, 56>>, <<12, 71>>, <<280, 125>>}

\* Update's tick and the workers; every fetch returns, with a timeout or a
\* price
RunRefresh ==
    \/ UpdateStart
    \/ UpdateSpawn
    \/ UpdateJoin
    \/ \E i \in Coins, resp \in PressResponses : WorkerFetch(i, resp)
    \/ \E i \in Coins : WorkerLock(i)
    \/ \E i \in Coins : WorkerCommit(i)
    \/ \E i \in Coins : WorkerDone(i)

RunInput ==
    \/ UpdateInput(FALSE, 0, 0)
    \/ \E p \in RunPresses : UpdateInput(TRUE, p[1], p[2])

\* the handler once the signal has arrived
HandlerSteps ==
    \/ SigLock
    \/ SigCopy
    \/ \E ok \in BOOLEAN : SigCreate(ok)
    \/ SigEncode
    \/ SigExit

RunNext ==
    \/ RunRefresh
    \/ RunInput
    \/ Render
    \/ SignalReceived
    \/ HandlerSteps

\* the signal may never come; whatever can run does
SpecRun ==
    /\ RunInit
    /\ [][RunNext]_vars
    /\ WF_vars(RunRefresh)
    /\ WF_vars(RunInput)
    /\ WF_vars(Render)
    /\ WF_vars(HandlerSteps)

\* C21: every fetch returning, every refresh cycle that starts completes
\* (each worker takes the mutex, commits and releases it, the join returns,
\* Update goes on) unless the process exits first; and while the process
\* runs some goroutine can always take a step: the workers, the press
\* handling, the draw and the termination handler never deadlock.
EveryCycleCompletes ==
    /\ InFlight ~> (~InFlight \/ ~Running)
    /\ [](Running => ENABLED (RunRefresh \/ RunInput \/ Render \/ HandlerSteps))

\* a cycle has returned to Update although the termination handler ran
\* beside it: the handler took the mutex, released it and read the first
\* symbol's last price before that symbol's worker committed, and is still
\* writing the file
CycleJoinedBesideHandler ==
    /\ cycles = 1
    /\ uiPc = "input"
    /\ sigPc = "encode"
    /\ Len(saved.coin_data) >= 1
    /\ saved.coin_data[1].last_price = ""
    /\ coinData[1].LastPrice # ""

-----------------------------------------------------------------------------
(* The option rows of an open dropdown: drawn and hit *)

\* the point is in an image.Rect (Min inclusive, Max exclusive)
InRect(r, mx, my) ==
    /\ mx >= r.MinX /\ mx < r.MaxX
    /\ my >= r.MinY /\ my < r.MaxY

\* the option rows of d that drawTopbar draws over the point
DrawnRowsAt(d, mx, my) ==
    {k \in 0..(Len(Options(d)) - 1) : InRect(DrawnOptionRect(d, k), mx, my)}

\* C22: for an open dropdown and every pointer position, a press inside the
\* drawn k-th option row selects option k of that dropdown, and a press
\* outside all its drawn rows selects none of its options: the hit test has
\* the vertical origin and the row height the rows are drawn with.
HitRowIsDrawnRow ==
    \A d \in OpenDropdowns :
        \A mx \in PointerXs, my \in PointerYs :
            \E r \in {handleTopbarInput(UIState, 1, mx, my)} :
                /\ \A k \in DrawnRowsAt(d, mx, my) :
                       r.path = "option" /\ r.dropdown = d /\ r.option = k
                /\ (r.path = "option" /\ r.dropdown = d)
                       => r.option \in DrawnRowsAt(d, mx, my)

====
